---- MODULE Spec2Model ----
(***************************************************************************)
(* A model of the decoding engine (src/decoder.py) and of the vocabulary   *)
(* and batching pipeline (src/manager.py).                                 *)
(*                                                                         *)
(* Each component is a state machine over its own variable: greedy_search  *)
(* over `greedy`, beam_search over `beam` (with `obs`, a history variable  *)
(* that records what the last loop iteration read and selected), Vocab     *)
(* over `vocab`, Manager.batch_data over `manager` and Batch.dict_mask     *)
(* over `batch`.                                                           *)
(* A specification per component leaves the other variables idle.          *)
(*                                                                         *)
(* Scores are log-probabilities.  They are kept as exact fractions         *)
(* <<num, den>> with den > 0, so that the division of line 53 and the      *)
(* threshold of line 43 are compared exactly.                              *)
(***************************************************************************)
EXTENDS Integers, Sequences, FiniteSets, TLC

VARIABLES greedy, beam, obs, vocab, manager, batch

vars == <<greedy, beam, obs, vocab, manager, batch>>

\* ------------------------------------------------------------------ bounds
\* greedy_search is run with max_length in 2 .. MaxGreedyLength.
MaxGreedyLength == 5
\* beam_search is run with max_length in 2 .. MaxLength
MaxLength == 4
\* and with an initial beam_size in 1 .. MaxBeam.
MaxBeam == 4

\* A vocabulary file has a header range end - start in 0 .. MaxRange
MaxRange == 9
\* and at most MaxTokenLines token lines.
MaxTokenLines == 2
\* A vocabulary built without a file gets at most MaxAdded words.
MaxAdded == 2
\* numberize is called with at most MaxWords words.
MaxWords == 2

\* A Batch built directly records at most MaxPairs (lemma, sense) pairs for its
\* first example.
MaxPairs == 2
\* batch.dict_mask is read at most MaxReads times on one Batch.
MaxReads == 2
\* The batches whose dict_mask is read come from a data file of at most
\* MaxReadLines lines.
MaxReadLines == 2

\* A data file has at most MaxLines lines behind its block of filler lines.
MaxLines == 3

\* --------------------------------------------------------------- vocabulary
\* Ids of the control tokens, as in the vocabulary {<PAD>:0, <BOS>:1, <EOS>:2, ...}.
PAD == 0
BOS == 1
EOS == 2
\* The ids beam search decodes over, and vocab.size(): the model is built with
\* vocab.size() output rows (manager.py:186-193), so a row of scores has
\* VocabSize entries.
Tokens == {PAD, BOS, EOS}
VocabSize == Cardinality(Tokens)
\* The ids greedy search decodes over: {<PAD>:0, <BOS>:1, <EOS>:2, a:3, b:4}.
GreedyTokens == {PAD, BOS, EOS, 3, 4}

\* One row of log_softmax output, a log-probability per token: the scoring
\* function favours one token and gives the others a lower, equal probability.
LogProbRows ==
    { row \in [Tokens -> {-1, -2}] : Cardinality({t \in Tokens : row[t] = -1}) = 1 }

\* ----------------------------------------------------------------- fractions
Frac(n) == <<n, 1>>
FracLess(x, y) == x[1] * y[2] < y[1] * x[2]
FracEq(x, y) == x[1] * y[2] = y[1] * x[2]
FracAddInt(x, k) == <<x[1] + k * x[2], x[2]>>
FracDiv(x, k) == <<x[1], x[2] * k>>

\* ------------------------------------------------------------ greedy_search
\* A path buffer filled with <PAD> behind the initial <BOS>.
GreedyInitPath_pad(max_length) == [p \in 1 .. max_length |-> IF p = 1 THEN BOS ELSE PAD]

\* torch.full((1, max_length), vocab.BOS): positions 0 .. max_length-1 are kept
\* at indices 1 .. max_length.
GreedyInitPath(max_length) == [p \in 1 .. max_length |-> BOS]

\* The scoring function: greedy search is deterministic, so the token that
\* model.decode + argmax yields at step i is a function of i alone.
GreedyInit ==
    \E n \in 2 .. MaxGreedyLength :
      \E script \in [1 .. (n - 1) -> GreedyTokens] :
        greedy = [max_length |-> n, script |-> script,
                  path |-> GreedyInitPath(n), i |-> 1, pc |-> "loop"]

\* One iteration of `for i in range(1, max_length)`.
GreedyStep ==
    /\ greedy.pc = "loop"
    /\ greedy.i < greedy.max_length
    /\ LET tok == greedy.script[greedy.i]
       IN  greedy' = [greedy EXCEPT
                        !.path[greedy.i + 1] = tok,
                        !.i = IF tok = EOS THEN @ ELSE @ + 1,
                        !.pc = IF tok = EOS THEN "break" ELSE "loop"]
    /\ UNCHANGED <<beam, obs, vocab, manager, batch>>

\* `return path.squeeze(0)`, after the break or when the range is exhausted.
GreedyReturn ==
    /\ \/ greedy.pc = "break"
       \/ greedy.pc = "loop" /\ greedy.i >= greedy.max_length
    /\ greedy' = [greedy EXCEPT !.pc = "done"]
    /\ UNCHANGED <<beam, obs, vocab, manager, batch>>

GreedyIdle == [pc |-> "idle"]

\* -------------------------------------------------------------- beam_search
Slots(n) == 1 .. n

\* The slots selected by a boolean mask, in ascending order (paths[active]).
RECURSIVE MaskedFrom(_, _, _)
MaskedFrom(mask, s, n) ==
    IF s > n THEN <<>>
    ELSE IF mask[s] THEN <<s>> \o MaskedFrom(mask, s + 1, n)
    ELSE MaskedFrom(mask, s + 1, n)
Masked(mask) == MaskedFrom(mask, 1, Cardinality(DOMAIN mask))

CountNonzero(mask) == Cardinality({s \in DOMAIN mask : mask[s]})

\* scores = probs[active].unsqueeze(1) + log_softmax; `if i == 1: scores = scores[0]`.
\* The result is scores.flatten(): entry f (from 0) is kept at index f + 1 and
\* belongs to row f \div VocabSize and token f % VocabSize.
Scores(probs, act, lp, i) ==
    LET rows == IF i = 1 THEN 1 ELSE Len(act)
    IN  [f \in 1 .. (rows * VocabSize) |->
            FracAddInt(probs[act[((f - 1) \div VocabSize) + 1]],
                       lp[((f - 1) \div VocabSize) + 1][(f - 1) % VocabSize])]

\* torch.topk(flat, k): every result it may return, as sequences of flattened
\* indices (from 0) in descending order of value.  The order of equal values is
\* not fixed by torch, so every order is a possible result.
RECURSIVE TopKFrom(_, _, _)
TopKFrom(flat, k, taken) ==
    IF k = 0 THEN {<<>>}
    ELSE LET rest == (0 .. (Len(flat) - 1)) \ taken
             best == { f \in rest : \A g \in rest : ~ FracLess(flat[f + 1], flat[g + 1]) }
         IN  UNION { { <<f>> \o sel : sel \in TopKFrom(flat, k - 1, taken \cup {f}) } :
                     f \in best }
TopK(flat, k) == TopKFrom(flat, k, {})

TopV(flat, topi) == [r \in DOMAIN topi |-> flat[topi[r] + 1]]

\* topv.max() / i
Threshold(flat, topi, i) == FracDiv(TopV(flat, topi)[1], i)

\* Reactivation with the comparison reversed.
Reactivate_gt(active, probs, thr) ==
    [s \in DOMAIN active |-> active[s] \/ (~ active[s] /\ FracLess(thr, probs[s]))]

\* active[~active] |= probs[~active] < topv.max() / i
Reactivate(active, probs, thr) ==
    [s \in DOMAIN active |-> active[s] \/ (~ active[s] /\ FracLess(probs[s], thr))]

\* paths[active] = paths[active][topi // vocab.size()]
Reassign(paths, act, topi) ==
    [s \in DOMAIN paths |->
        IF \E r \in DOMAIN act : act[r] = s
        THEN LET r == CHOOSE r \in DOMAIN act : act[r] = s
             IN  paths[act[(topi[r] \div VocabSize) + 1]]
        ELSE paths[s]]

\* paths[active, i] = topi % vocab.size()
AppendToken(paths, act, topi, i) ==
    [s \in DOMAIN paths |->
        IF \E r \in DOMAIN act : act[r] = s
        THEN LET r == CHOOSE r \in DOMAIN act : act[r] = s
             IN  [paths[s] EXCEPT ![i + 1] = topi[r] % VocabSize]
        ELSE paths[s]]

\* probs[active] = topv
Rescore(probs, act, topv) ==
    [s \in DOMAIN probs |->
        IF \E r \in DOMAIN act : act[r] = s
        THEN LET r == CHOOSE r \in DOMAIN act : act[r] = s IN topv[r]
        ELSE probs[s]]

\* terminated = paths[:, i] == vocab.EOS
Terminated(paths, i) == [s \in DOMAIN paths |-> paths[s][i + 1] = EOS]

\* Normalization by the number of tokens of the path instead of the step index.
Normalize_len(probs, terminated, i) ==
    [s \in DOMAIN probs |-> IF terminated[s] THEN FracDiv(probs[s], i + 1) ELSE probs[s]]

\* probs[terminated] /= i
Normalize(probs, terminated, i) ==
    [s \in DOMAIN probs |-> IF terminated[s] THEN FracDiv(probs[s], i) ELSE probs[s]]

BeamInit ==
    \E b \in 1 .. MaxBeam, n \in 2 .. MaxLength :
      /\ beam = [init_size |-> b, beam_size |-> b, max_length |-> n, i |-> 0,
                 active |-> [s \in Slots(b) |-> TRUE],
                 paths |-> [s \in Slots(b) |-> [p \in 1 .. n |-> BOS]],
                 probs |-> [s \in Slots(b) |-> Frac(0)],
                 result |-> <<>>, pc |-> "loop"]
      /\ obs = [step |-> 0,
                raw |-> [s \in Slots(b) |-> Frac(0)],
                eos_step |-> [s \in Slots(b) |-> 0]]

\* One iteration of `while (i := i + 1) < max_length and beam_size > 0`.
BeamStep ==
    /\ beam.pc = "loop"
    /\ beam.i + 1 < beam.max_length
    /\ beam.beam_size > 0
    /\ beam.beam_size <= (IF beam.i = 0 THEN 1 ELSE beam.beam_size) * VocabSize
    /\ LET i == beam.i + 1
           act0 == Masked(beam.active)
           rows == IF i = 1 THEN 1 ELSE Len(act0)
           widen == beam.beam_size < beam.init_size
       IN  \E lp \in [1 .. rows -> LogProbRows] :
             \E flat \in {Scores(beam.probs, act0, lp, i)} :
             \E top0 \in TopK(flat, beam.beam_size) :
             \E thr \in {Threshold(flat, top0, i)} :
             \E active1 \in {IF widen THEN Reactivate(beam.active, beam.probs, thr)
                              ELSE beam.active} :
               LET regrow == widen /\ CountNonzero(active1) > beam.beam_size
               IN  \E topi \in (IF regrow THEN TopK(flat, CountNonzero(active1))
                                ELSE {top0}) :
                   \E topv \in {TopV(flat, topi)}, act1 \in {Masked(active1)} :
                   \E paths1 \in {AppendToken(Reassign(beam.paths, act1, topi), act1, topi, i)},
                      probs1 \in {Rescore(beam.probs, act1, topv)} :
                   \E term \in {Terminated(paths1, i)} :
                     LET active2 == [s \in DOMAIN active1 |-> active1[s] /\ ~ term[s]]
                     IN  /\ beam' = [beam EXCEPT
                                       !.i = i,
                                       !.active = active2,
                                       !.paths = paths1,
                                       !.probs = Normalize(probs1, term, i),
                                       !.beam_size = CountNonzero(active2)]
                         /\ obs' = [step |-> i,
                                    widen |-> widen,
                                    thr |-> thr,
                                    pre_active |-> beam.active,
                                    pre_paths |-> beam.paths,
                                    pre_probs |-> beam.probs,
                                    act0 |-> act0,
                                    active1 |-> active1,
                                    topi |-> topi,
                                    topv |-> topv,
                                    raw |-> [s \in DOMAIN active1 |->
                                               IF active1[s] /\ term[s] THEN probs1[s]
                                               ELSE obs.raw[s]],
                                    eos_step |-> [s \in DOMAIN active1 |->
                                               IF active1[s] /\ term[s] THEN i
                                               ELSE IF active1[s] THEN 0
                                               ELSE obs.eos_step[s]]]
    /\ UNCHANGED <<greedy, vocab, manager, batch>>

\* torch.topk raises RuntimeError when k exceeds the number of scores: at
\* i = 1 scores is the single row scores[0], of VocabSize entries.
BeamRaise ==
    /\ beam.pc = "loop"
    /\ beam.i + 1 < beam.max_length
    /\ beam.beam_size > 0
    /\ beam.beam_size > (IF beam.i = 0 THEN 1 ELSE beam.beam_size) * VocabSize
    /\ beam' = [beam EXCEPT !.pc = "raised", !.i = @ + 1]
    /\ UNCHANGED <<greedy, obs, vocab, manager, batch>>

\* probs.argmax(): an index of a maximal score.
ArgMax(probs) ==
    { s \in DOMAIN probs : \A t \in DOMAIN probs : ~ FracLess(probs[s], probs[t]) }

\* `return paths[probs.argmax()]`, when the loop condition fails.
BeamReturn ==
    /\ beam.pc = "loop"
    /\ ~ (beam.i + 1 < beam.max_length /\ beam.beam_size > 0)
    /\ \E s \in ArgMax(beam.probs) :
         beam' = [beam EXCEPT !.pc = "done", !.i = @ + 1, !.result = beam.paths[s]]
    /\ UNCHANGED <<greedy, obs, vocab, manager, batch>>

BeamIdle == [pc |-> "idle"]
ObsIdle == [step |-> 0]

\* -------------------------------------------------------------------- Vocab
\* The words of the vocabulary files and of the sentences numberized.
FileWords == {"<UNK>", "<BOS>", "a"}
AnyWords == {"<UNK>", "a", "zz"}

\* f'<PAD {k}>'
PadName(k) ==
    <<"<PAD 0>", "<PAD 1>", "<PAD 2>", "<PAD 3>", "<PAD 4>", "<PAD 5>", "<PAD 6>",
      "<PAD 7>", "<PAD 8>", "<PAD 9>", "<PAD 10>", "<PAD 11>", "<PAD 12>",
      "<PAD 13>", "<PAD 14>">>[k + 1]

\* Vocab.size(): len(self.num_to_word)
Size(v) == Len(v.num_to_word)

\* Vocab.add: the assignment to the dict never raises ValueError, so the word
\* is always appended, and a word already present gets the new index.
Add(v, word) ==
    [v EXCEPT
       !.word_to_num = [w \in DOMAIN v.word_to_num \cup {word} |->
                           IF w = word THEN Size(v) ELSE v.word_to_num[w]],
       !.num_to_word = Append(v.num_to_word, word)]

\* for k in range(n): self.add(f'<PAD {base + k}>')
RECURSIVE AddPads(_, _, _, _)
AddPads(v, base, k, n) ==
    IF k >= n THEN v ELSE AddPads(Add(v, PadName(base + k)), base, k + 1, n)

\* for line in vocab_file: self.add(line.split()[0])
RECURSIVE AddLines(_, _)
AddLines(v, lines) ==
    IF lines = <<>> THEN v ELSE AddLines(Add(v, Head(lines)), Tail(lines))

\* decoding_size += i + 1 if i else 0, with i the last value of the first loop
PaddedDecodingSize(decoding_size) ==
    LET i == 8 - (decoding_size % 8) - 1
    IN  decoding_size + (IF i # 0 THEN i + 1 ELSE 0)

\* Vocab._from_file, for a header '#<start>:<end>' with end - start = range
\* and the first fields of the token lines.
FromFile(v, range, lines) ==
    LET i == 8 - (range % 8) - 1
        v1 == AddPads(v, 0, 0, 8 - (range % 8))
        v2 == AddLines(v1, lines)
        v3 == AddPads(v2, i, 0, 8 - (Size(v2) % 8))
    IN  [v3 EXCEPT !.decoding_size = PaddedDecodingSize(range)]

\* Vocab.UNK: the lookup raises KeyError when '<UNK>' is absent, and the
\* handler is for ValueError, so the KeyError leaves the property.
UNK(v) ==
    IF "<UNK>" \in DOMAIN v.word_to_num
    THEN [raised |-> "none", value |-> v.word_to_num["<UNK>"]]
    ELSE [raised |-> "KeyError", value |-> -1]

\* Vocab.numberize(*words, as_list=True)
RECURSIVE Numberize(_, _)
Numberize(v, words) ==
    IF words = <<>> THEN [raised |-> "none", nums |-> <<>>]
    ELSE LET first == IF Head(words) \in DOMAIN v.word_to_num
                      THEN [raised |-> "none", value |-> v.word_to_num[Head(words)]]
                      ELSE UNK(v)
             rest == Numberize(v, Tail(words))
         IN  IF first.raised # "none" THEN [raised |-> first.raised, nums |-> <<>>]
             ELSE IF rest.raised # "none" THEN rest
             ELSE [raised |-> "none", nums |-> <<first.value>> \o rest.nums]

\* Vocab.__init__ before the file is read: no words, no decoding size.
VocabInit ==
    vocab = [num_to_word |-> <<>>, word_to_num |-> <<>>, decoding_size |-> -1,
             loaded |-> FALSE, range |-> -1, words |-> <<>>, nums |-> <<>>,
             raised |-> "none"]

\* Vocab(vocab_file): the constructor reads the file.
VocabFromFile ==
    /\ vocab.raised = "none"
    /\ ~ vocab.loaded
    /\ vocab.num_to_word = <<>>
    /\ \E range \in 0 .. MaxRange, n \in 0 .. MaxTokenLines :
         \E lines \in [1 .. n -> FileWords] :
           vocab' = [FromFile(vocab, range, lines) EXCEPT !.loaded = TRUE, !.range = range]
    /\ UNCHANGED <<greedy, beam, obs, manager, batch>>

\* vocab.add(word) on a vocabulary built without a file.
VocabAdd ==
    /\ vocab.raised = "none"
    /\ ~ vocab.loaded
    /\ Size(vocab) < MaxAdded
    /\ \E word \in FileWords : vocab' = Add(vocab, word)
    /\ UNCHANGED <<greedy, beam, obs, manager, batch>>

\* vocab.numberize(*words)
VocabNumberize ==
    /\ vocab.raised = "none"
    /\ \E n \in 1 .. MaxWords :
         \E words \in [1 .. n -> AnyWords] :
           LET r == Numberize(vocab, words)
           IN  vocab' = [vocab EXCEPT !.words = words, !.nums = r.nums, !.raised = r.raised]
    /\ UNCHANGED <<greedy, beam, obs, manager, batch>>

VocabIdle == [raised |-> "idle"]

\* ------------------------------------------------------- Manager.batch_data
\* A word is the sequence of its characters; "<BOS>", "<EOS>" and the sense
\* tokens count as one character each.
WBos == <<"<BOS>">>
WEos == <<"<EOS>">>
Wa2 == <<"a", "@", "@">>
Wb == <<"b">>
Wc == <<"c">>
Wx == <<"x">>
S1 == <<"s1">>
S2 == <<"s2">>
S3 == <<"s3">>

\* self.dict (lemma -> sense tokens) and self.freq (lemma -> count).
Dict == (<<"a", "b">> :> <<S1, S2, S3>>) @@ (Wc :> <<S1>>) @@ (Wb :> <<S2, S3>>)
Freq == (<<"a", "b">> :> 1) @@ (Wc :> 2) @@ (Wb :> 9) @@ (Wx :> 1)

\* A field of a line: the text between two tab characters.  `blank` says that
\* the text is the empty string; `words` is text.split().
Field(words) == [blank |-> FALSE, words |-> words]
EmptyField == [blank |-> TRUE, words |-> <<>>]

\* The lines a data file is made of: line.split('\t') gives `fields`.
LineMalformed == <<Field(<<Wc>>)>>
LineC == <<Field(<<Wc>>), Field(<<Wx>>)>>
LineAB == <<Field(<<Wa2, Wb>>), Field(<<Wx, Wx, Wx>>)>>
LineBB == <<Field(<<Wb, Wb>>), Field(<<Wx, Wx, Wx, Wx>>)>>
LineABC == <<Field(<<Wa2, Wb, Wc>>), Field(<<Wx>>)>>
LineEmptySrc == <<EmptyField, Field(<<Wx>>)>>
LineLong == <<Field(<<Wb, Wb, Wb, Wb, Wb, Wb, Wb>>), Field(<<Wx>>)>>
LineCAB == <<Field(<<Wc, Wa2, Wb>>), Field(<<Wx>>)>>
Lines ==
    {LineMalformed, LineC, LineAB, LineBB, LineABC, LineCAB, LineEmptySrc, LineLong}
LineFiller == <<Field(<<Wb, Wb, Wb, Wb>>), Field(<<Wx>>)>>

\* The configurations: config['max_length'], config['batch_size'] (the token
\* budget), config['freq_limit'], config['max_senses'].
Configs ==
    [max_length : {6, 8}, batch_size : {40, 64, 128}, freq_limit : {5}, max_senses : {2}]
\* The number of filler lines at the head of a data file.
FillerCounts == {0, 8}

\* str.endswith('@@')
EndsWithAtAt(w) == Len(w) >= 2 /\ w[Len(w)] = "@" /\ w[Len(w) - 1] = "@"

\* str.rstrip('@@'): strips every trailing '@'.
RECURSIVE RStripAt(_)
RStripAt(w) ==
    IF w # <<>> /\ w[Len(w)] = "@" THEN RStripAt(SubSeq(w, 1, Len(w) - 1)) ELSE w

\* The inner while of the lemma scan: from token i (ending with '@@'), the
\* index of the last token of the lemma and the lemma's text.
RECURSIVE JoinLemma(_, _, _, _)
JoinLemma(src_words, i, src_len, lemma) ==
    IF i + 1 < src_len /\ EndsWithAtAt(src_words[i + 2])
    THEN JoinLemma(src_words, i + 1, src_len, lemma \o RStripAt(src_words[i + 2]))
    ELSE [i |-> i + 1, lemma |-> lemma \o src_words[i + 2]]

\* list[:n]
Prefix(seq, n) == SubSeq(seq, 1, IF n < Len(seq) THEN n ELSE Len(seq))

\* The lemma scan with `continue` in the place of the `break` of line 279: a
\* lemma whose senses do not fit is passed over and the scan goes on.
RECURSIVE ScanLemmas_noBreak(_, _, _, _, _, _)
ScanLemmas_noBreak(cfg, src_words, i, src_len, lemmas, senses) ==
    IF ~ (i < src_len)
    THEN [src_words |-> src_words, lemmas |-> lemmas, senses |-> senses]
    ELSE LET joined == IF EndsWithAtAt(src_words[i + 1])
                       THEN JoinLemma(src_words, i, src_len, RStripAt(src_words[i + 1]))
                       ELSE [i |-> i, lemma |-> src_words[i + 1]]
             lemma == joined.lemma
             eligible == /\ lemma \in DOMAIN Freq
                         /\ lemma \in DOMAIN Dict
                         /\ Freq[lemma] <= cfg.freq_limit
             sense == Prefix(Dict[lemma], cfg.max_senses)
         IN  IF ~ eligible \/ Len(src_words) + Len(sense) > cfg.max_length
             THEN ScanLemmas_noBreak(cfg, src_words, joined.i + 1, src_len, lemmas, senses)
             ELSE ScanLemmas_noBreak(cfg, src_words \o sense, joined.i + 1, src_len,
                                     Append(lemmas, <<i, joined.i + 1>>),
                                     Append(senses, <<Len(src_words),
                                                      Len(src_words) + Len(sense)>>))

\* The lemma scan of one example (manager.py:255-281), entered with i already
\* advanced: indices are those of the code (from 0), src_words[i] is kept at
\* src_words[i + 1].
RECURSIVE ScanLemmas(_, _, _, _, _, _)
ScanLemmas(cfg, src_words, i, src_len, lemmas, senses) ==
    IF ~ (i < src_len)
    THEN [src_words |-> src_words, lemmas |-> lemmas, senses |-> senses]
    ELSE LET joined == IF EndsWithAtAt(src_words[i + 1])
                       THEN JoinLemma(src_words, i, src_len, RStripAt(src_words[i + 1]))
                       ELSE [i |-> i, lemma |-> src_words[i + 1]]
             lemma == joined.lemma
             lemma_end == joined.i + 1
             eligible == /\ lemma \in DOMAIN Freq
                         /\ lemma \in DOMAIN Dict
                         /\ Freq[lemma] <= cfg.freq_limit
             sense == Prefix(Dict[lemma], cfg.max_senses)
             sense_start == Len(src_words)
         IN  IF ~ eligible
             THEN ScanLemmas(cfg, src_words, joined.i + 1, src_len, lemmas, senses)
             ELSE IF Len(src_words) + Len(sense) > cfg.max_length
             THEN [src_words |-> src_words, lemmas |-> lemmas, senses |-> senses]
             ELSE ScanLemmas(cfg, src_words \o sense, joined.i + 1, src_len,
                             Append(lemmas, <<i, lemma_end>>),
                             Append(senses, <<sense_start, sense_start + Len(sense)>>))

\* The body of `for line in data_file` for one line: the example it adds to
\* unbatched, or none (`continue`), or the ValueError of the unpacking of
\* line.split('\t') when the line has not exactly two fields.
ReadLine(cfg, fields, id) ==
    IF Len(fields) # 2 THEN [raised |-> "ValueError at line 245", examples |-> <<>>]
    ELSE IF fields[1].blank \/ fields[2].blank THEN [raised |-> "none", examples |-> <<>>]
    ELSE LET src_words == <<WBos>> \o fields[1].words \o <<WEos>>
             tgt_words == <<WBos>> \o fields[2].words \o <<WEos>>
             scan == ScanLemmas(cfg, src_words, 0, Len(src_words), <<>>, <<>>)
         IN  IF Len(src_words) > cfg.max_length \/ Len(tgt_words) > cfg.max_length
             THEN [raised |-> "none", examples |-> <<>>]
             ELSE [raised |-> "none",
                   examples |-> << [id |-> id, src_len0 |-> Len(src_words),
                                    src_words |-> scan.src_words, tgt_words |-> tgt_words,
                                    lemmas |-> scan.lemmas, senses |-> scan.senses] >>]

\* `for line in data_file`: the examples of lines k, k + 1, ..., or the error
\* of the first line that raises.
RECURSIVE ReadLines(_, _, _)
ReadLines(cfg, data_file, k) ==
    IF k > Len(data_file) THEN [raised |-> "none", examples |-> <<>>]
    ELSE LET first == ReadLine(cfg, data_file[k], k)
             rest == ReadLines(cfg, data_file, k + 1)
         IN  IF first.raised # "none" THEN first
             ELSE [raised |-> rest.raised, examples |-> first.examples \o rest.examples]

\* The order of an ascending sort (reverse=True left out).
KeyGreater_asc(x, y) ==
    \/ Len(x.src_words) < Len(y.src_words)
    \/ Len(x.src_words) = Len(y.src_words) /\ Len(x.tgt_words) < Len(y.tgt_words)

\* The sort key (len(x[0]), len(x[1])) compared: TRUE when x sorts before y
\* under reverse=True.
KeyGreater(x, y) ==
    \/ Len(x.src_words) > Len(y.src_words)
    \/ Len(x.src_words) = Len(y.src_words) /\ Len(x.tgt_words) > Len(y.tgt_words)

\* The place of x in a list sorted descending: behind every element that does
\* not sort after it (the sort is stable).
RECURSIVE InsertDesc(_, _)
InsertDesc(sorted, x) ==
    IF sorted = <<>> THEN <<x>>
    ELSE IF KeyGreater(x, Head(sorted)) THEN <<x>> \o sorted
    ELSE <<Head(sorted)>> \o InsertDesc(Tail(sorted), x)

\* unbatched.sort(key=lambda x: (len(x[0]), len(x[1])), reverse=True)
RECURSIVE SortDesc(_)
SortDesc(unbatched) ==
    IF unbatched = <<>> THEN <<>>
    ELSE InsertDesc(SortDesc(SubSeq(unbatched, 1, Len(unbatched) - 1)),
                    unbatched[Len(unbatched)])

Max(a, b) == IF a >= b THEN a ELSE b
MaxOver(seq, f(_)) ==
    CHOOSE m \in {f(seq[k]) : k \in DOMAIN seq} : \A k \in DOMAIN seq : f(seq[k]) <= m
SrcLen(x) == Len(x.src_words)
TgtLen(x) == Len(x.tgt_words)

\* unbatched[i:(i + n)], with i counted from 0
Slice(unbatched, i, n) ==
    SubSeq(unbatched, i + 1, IF i + n < Len(unbatched) THEN i + n ELSE Len(unbatched))

\* math.ceil(n / 8) * 8
Ceil8(n) == ((n + 7) \div 8) * 8

\* The `while True` that sizes a bucket (manager.py:292-300): the slice it
\* settles on, or the ValueError of unpacking zip(*[]) when batch_size is 0.
RECURSIVE SizeBucket(_, _, _, _, _)
SizeBucket(cfg, unbatched, i, src_len, tgt_len) ==
    LET batch_size == (cfg.batch_size \div (Max(src_len, tgt_len) * 8)) * 8
        slice == Slice(unbatched, i, batch_size)
    IN  IF slice = <<>> THEN [raised |-> "ValueError at line 295", batch_size |-> batch_size]
        ELSE LET max_src_len == MaxOver(slice, SrcLen)
                 max_tgt_len == MaxOver(slice, TgtLen)
             IN  IF src_len >= max_src_len /\ tgt_len >= max_tgt_len
                 THEN [raised |-> "none", batch_size |-> batch_size, slice |-> slice,
                       src_len |-> src_len, tgt_len |-> tgt_len,
                       max_src_len |-> max_src_len, max_tgt_len |-> max_tgt_len]
                 ELSE SizeBucket(cfg, unbatched, i, max_src_len, max_tgt_len)

\* Batch(src_nums, tgt_nums, zip(lemmas, senses), self.device, self.vocab.PAD):
\* the rows are kept as the examples they were numberized from, with the
\* padded lengths; dict_data is the zip object, an iterator that `exhausted`
\* says has been run through.
NewBatch(sized) ==
    [examples |-> sized.slice,
     seed |-> sized.slice[1],
     size |-> Len(sized.slice),
     max_src_len |-> Ceil8(sized.max_src_len),
     max_tgt_len |-> Ceil8(sized.max_tgt_len),
     dict_data |-> [k \in DOMAIN sized.slice |->
                      <<sized.slice[k].lemmas, sized.slice[k].senses>>],
     iterator |-> TRUE,
     exhausted |-> FALSE]

\* Manager.__init__ up to the call of batch_data(data_file).
ManagerInit ==
    \E cfg \in Configs, fill \in FillerCounts, n \in 0 .. MaxLines :
      \E lines \in [1 .. n -> Lines] :
        manager = [config |-> cfg,
                   data_file |-> [k \in 1 .. fill |-> LineFiller] \o lines,
                   unbatched |-> <<>>, batched |-> <<>>, i |-> 0, batch_size |-> 0,
                   raised |-> "none", pc |-> "read"]

\* Manager.__init__ up to the call of batch_data(test_file), for a short file.
ManagerInitFew ==
    \E cfg \in Configs, n \in 0 .. MaxReadLines :
      \E lines \in [1 .. n -> Lines] :
        manager = [config |-> cfg,
                   data_file |-> lines,
                   unbatched |-> <<>>, batched |-> <<>>, i |-> 0, batch_size |-> 0,
                   raised |-> "none", pc |-> "read"]

\* batch_data, lines 243-287: read every line, sort, enter the bucket loop.
BatchRead ==
    /\ manager.pc = "read"
    /\ LET r == ReadLines(manager.config, manager.data_file, 1)
       IN  manager' = IF r.raised # "none"
                      THEN [manager EXCEPT !.raised = r.raised, !.pc = "raised"]
                      ELSE [manager EXCEPT !.unbatched = SortDesc(r.examples),
                                           !.pc = "bucket"]
    /\ UNCHANGED <<greedy, beam, obs, vocab, batch>>

\* One iteration of `while (i := i + batch_size) < len(unbatched)`.
BatchBucket ==
    /\ manager.pc = "bucket"
    /\ manager.i + manager.batch_size < Len(manager.unbatched)
    /\ LET i == manager.i + manager.batch_size
           sized == SizeBucket(manager.config, manager.unbatched, i,
                               SrcLen(manager.unbatched[i + 1]),
                               TgtLen(manager.unbatched[i + 1]))
       IN  manager' = IF sized.raised # "none"
                      THEN [manager EXCEPT !.i = i, !.batch_size = sized.batch_size,
                                           !.raised = sized.raised, !.pc = "raised"]
                      ELSE [manager EXCEPT !.i = i, !.batch_size = sized.batch_size,
                                           !.batched = Append(@, NewBatch(sized))]
    /\ UNCHANGED <<greedy, beam, obs, vocab, batch>>

\* `return batched`, when the loop condition fails.
BatchReturn ==
    /\ manager.pc = "bucket"
    /\ ~ (manager.i + manager.batch_size < Len(manager.unbatched))
    /\ manager' = [manager EXCEPT !.i = manager.i + manager.batch_size, !.pc = "done"]
    /\ UNCHANGED <<greedy, beam, obs, vocab, batch>>

ManagerIdle == [pc |-> "idle"]

\* ------------------------------------------------------------ Batch.dict_mask
\* The (lemmas, senses) of the examples that iterating self._dict_data yields:
\* a zip object yields them once, a list every time.
DictData(b) == IF b.iterator /\ b.exhausted THEN <<>> ELSE b.dict_data

\* k in range(span[0], span[1])
InSpan(k, span) == span[1] <= k /\ k < span[2]

\* The body of the inner loop without the reset of the lemma rows (line 146).
MaskPair_noLemma(m, lemma, sense) ==
    [x \in DOMAIN m |->
        IF x[1] = 0 /\ InSpan(x[3], sense) THEN 1
        ELSE IF x[1] = 1 /\ InSpan(x[2], sense)
        THEN (IF InSpan(x[3], sense) THEN 0 ELSE 1)
        ELSE m[x]]

\* The body of the inner loop of dict_mask for one pair (a, b), (c, d), on the
\* mask of one example, a function of <<layer, row, column>>:
\*   dict_mask[0, i, :, c:d] = 1;  dict_mask[0, i, a:b, c:d] = 0
\*   dict_mask[1, i, c:d, :] = 1;  dict_mask[1, i, c:d, c:d] = 0
MaskPair(m, lemma, sense) ==
    [x \in DOMAIN m |->
        IF x[1] = 0 /\ InSpan(x[3], sense)
        THEN (IF InSpan(x[2], lemma) THEN 0 ELSE 1)
        ELSE IF x[1] = 1 /\ InSpan(x[2], sense)
        THEN (IF InSpan(x[3], sense) THEN 0 ELSE 1)
        ELSE m[x]]

\* for (a, b), (c, d) in zip(lemmas, senses), from pair k on
RECURSIVE MaskPairs(_, _, _, _)
MaskPairs(m, lemmas, senses, k) ==
    IF k > Len(lemmas) \/ k > Len(senses) THEN m
    ELSE MaskPairs(MaskPair(m, lemmas[k], senses[k]), lemmas, senses, k + 1)

\* torch.zeros(...).repeat((2, 1, Ls, 1)) for one example
ZeroMask(ls) == [x \in {0, 1} \X (0 .. (ls - 1)) \X (0 .. (ls - 1)) |-> 0]

\* Batch.dict_mask: the mask of each of the rows of the batch.
DictMask(b) ==
    LET data == DictData(b)
    IN  [i \in 1 .. b.size |->
            IF i \in DOMAIN data
            THEN MaskPairs(ZeroMask(b.max_src_len), data[i][1], data[i][2], 1)
            ELSE ZeroMask(b.max_src_len)]

\* The spans batch_data can record for an example whose source had src_len0
\* tokens: lemma spans among its tokens, and the sense spans one behind the
\* other from src_len0 on (sense_start is the length of the source so far).
LemmaSpans == {<<1, 2>>, <<1, 3>>, <<2, 4>>}
SenseLens == {0, 1, 4}
RECURSIVE SenseSpans(_, _)
SenseSpans(start, lens) ==
    IF lens = <<>> THEN <<>>
    ELSE <<<<start, start + Head(lens)>>>> \o SenseSpans(start + Head(lens), Tail(lens))
RECURSIVE Sum(_)
Sum(lens) == IF lens = <<>> THEN 0 ELSE Head(lens) + Sum(Tail(lens))

\* Batch(src_nums, tgt_nums, dict_data, device, ignore_index) built directly,
\* with dict_data a list: one example with its recorded pairs, and possibly a
\* second example with one pair.
BatchInit ==
    \E src_len0 \in {4, 10}, n \in 0 .. MaxPairs, second \in BOOLEAN :
      \E lemmas \in [1 .. n -> LemmaSpans], lens \in [1 .. n -> SenseLens] :
        batch = [size |-> IF second THEN 2 ELSE 1,
                 max_src_len |-> Ceil8(src_len0 + Sum(lens)),
                 dict_data |-> << <<lemmas, SenseSpans(src_len0, lens)>> >>
                               \o (IF second THEN << << <<<<1, 2>>>>, <<<<3, 4>>>> >> >>
                                    ELSE <<>>),
                 iterator |-> FALSE,
                 exhausted |-> FALSE,
                 pc |-> "built",
                 reads |-> 0,
                 first |-> <<>>,
                 mask |-> <<>>]

\* `for batch in manager.test` (score.py:15), after batch_data has returned:
\* one of the batches it built, not read yet.
BatchTake ==
    /\ manager.pc = "done"
    /\ batch.pc = "idle"
    /\ \E k \in DOMAIN manager.batched :
         LET b == manager.batched[k]
         IN  batch' = [size |-> b.size,
                       max_src_len |-> b.max_src_len,
                       dict_data |-> b.dict_data,
                       iterator |-> b.iterator,
                       exhausted |-> b.exhausted,
                       pc |-> "built",
                       reads |-> 0,
                       first |-> <<>>,
                       mask |-> <<>>]
    /\ UNCHANGED <<greedy, beam, obs, vocab, manager>>

\* A read of batch.dict_mask: `mask` is what the read returned, `first` what
\* the first read of this Batch returned.  The read runs through
\* self._dict_data.
BatchDictMask ==
    /\ batch.pc = "built"
    /\ batch.reads < MaxReads
    /\ \E m \in {DictMask(batch)} :
         batch' = [batch EXCEPT !.mask = m,
                                !.first = IF batch.reads = 0 THEN m ELSE @,
                                !.reads = @ + 1,
                                !.exhausted = TRUE]
    /\ UNCHANGED <<greedy, beam, obs, vocab, manager>>

BatchIdle == [pc |-> "idle"]

\* ---------------------------------------------------------- specifications
InitGreedy == GreedyInit /\ beam = BeamIdle /\ obs = ObsIdle /\ vocab = VocabIdle /\ manager = ManagerIdle
    /\ batch = BatchIdle
NextGreedy == GreedyStep \/ GreedyReturn
SpecGreedy == InitGreedy /\ [][NextGreedy]_vars

InitBeam == BeamInit /\ greedy = GreedyIdle /\ vocab = VocabIdle /\ manager = ManagerIdle
    /\ batch = BatchIdle
NextBeam == BeamStep \/ BeamRaise \/ BeamReturn
SpecBeam == InitBeam /\ [][NextBeam]_vars

InitVocab ==
    /\ VocabInit /\ greedy = GreedyIdle /\ beam = BeamIdle /\ obs = ObsIdle
    /\ manager = ManagerIdle /\ batch = BatchIdle
NextVocab == VocabFromFile \/ VocabAdd \/ VocabNumberize
SpecVocab == InitVocab /\ [][NextVocab]_vars

InitBatch ==
    /\ ManagerInit /\ greedy = GreedyIdle /\ beam = BeamIdle /\ obs = ObsIdle
    /\ vocab = VocabIdle /\ batch = BatchIdle
NextBatch == BatchRead \/ BatchBucket \/ BatchReturn
SpecBatch == InitBatch /\ [][NextBatch]_vars

\* batch_data on a test file, then the reads of dict_mask of one of its batches.
InitRead ==
    /\ ManagerInitFew /\ greedy = GreedyIdle /\ beam = BeamIdle /\ obs = ObsIdle
    /\ vocab = VocabIdle /\ batch = BatchIdle
NextRead == BatchRead \/ BatchBucket \/ BatchReturn \/ BatchTake \/ BatchDictMask
SpecRead == InitRead /\ [][NextRead]_vars

InitMask ==
    /\ BatchInit /\ greedy = GreedyIdle /\ beam = BeamIdle /\ obs = ObsIdle
    /\ vocab = VocabIdle /\ manager = ManagerIdle
NextMask == BatchDictMask
SpecMask == InitMask /\ [][NextMask]_vars

\* ------------------------------------------------------------------ claims

\* The case of C1: the scoring function predicts a, then b, then <EOS>, and
\* greedy_search has returned.
GreedyABEos ==
    /\ greedy.pc = "done"
    /\ greedy.max_length >= 4
    /\ greedy.script[1] \in GreedyTokens \ {PAD, BOS, EOS}
    /\ greedy.script[2] \in GreedyTokens \ {PAD, BOS, EOS}
    /\ greedy.script[3] = EOS

GreedyExpected(fill) ==
    [p \in 1 .. greedy.max_length |->
        IF p = 1 THEN BOS
        ELSE IF p <= 4 THEN greedy.script[p - 1]
        ELSE fill]

\* C1 (as stated): with a scoring function that predicts a, b, <EOS>, greedy
\* search returns [<BOS>, a, b, <EOS>, <PAD>, <PAD>, ...]: every position after
\* the emitted <EOS> holds the <PAD> id.
C1_PadAfterEos == GreedyABEos => greedy.path = GreedyExpected(PAD)

\* C1 (amended): with a scoring function that predicts a, b, <EOS>, greedy
\* search returns [<BOS>, a, b, <EOS>, <BOS>, <BOS>, ...]: every position after
\* the emitted <EOS> still holds the <BOS> id the buffer was filled with.
C1_BosAfterEos == GreedyABEos => greedy.path = GreedyExpected(BOS)

\* A run of the case of C1 with at least one position after the <EOS>.
C1_Witness == GreedyABEos /\ greedy.max_length >= 5

\* The last iteration of beam_search ran the dynamic-widening branch.
Widened == beam.pc # "idle" /\ obs.step > 0 /\ obs.widen

\* C2 (as stated): at a step where beam_size is below its initial size, an
\* inactive slot is re-activated iff its stored score exceeds topv.max() / i,
\* and a slot whose stored score does not exceed it stays inactive and keeps
\* its path and score.
C2_ReactivateAbove ==
    Widened =>
      \A s \in DOMAIN obs.pre_active :
        ~ obs.pre_active[s] =>
          /\ obs.active1[s] <=> FracLess(obs.thr, obs.pre_probs[s])
          /\ ~ FracLess(obs.thr, obs.pre_probs[s]) =>
                /\ ~ beam.active[s]
                /\ beam.paths[s] = obs.pre_paths[s]
                /\ beam.probs[s] = obs.pre_probs[s]

\* C2 (amended): at a step where beam_size is below its initial size, an
\* inactive slot is re-activated iff its stored score is below
\* topv.max() / i, and a slot whose stored score is not below it stays
\* inactive and keeps its path and score.
C2_ReactivateBelow ==
    Widened =>
      \A s \in DOMAIN obs.pre_active :
        ~ obs.pre_active[s] =>
          /\ obs.active1[s] <=> FracLess(obs.pre_probs[s], obs.thr)
          /\ ~ FracLess(obs.pre_probs[s], obs.thr) =>
                /\ ~ beam.active[s]
                /\ beam.paths[s] = obs.pre_paths[s]
                /\ beam.probs[s] = obs.pre_probs[s]

\* A widening step that re-activated one inactive slot and left another
\* inactive.
C2_Witness ==
    /\ Widened
    /\ \E s, t \in DOMAIN obs.pre_active :
         /\ ~ obs.pre_active[s] /\ obs.active1[s]
         /\ ~ obs.pre_active[t] /\ ~ obs.active1[t] /\ ~ beam.active[t]

\* C3: the stored score of every inactive (terminated) slot is the raw score
\* its path had when <EOS> was appended, divided by the step index at which
\* <EOS> was emitted, in every later state while the slot stays inactive.
C3_NormalizedOnce ==
    beam.pc # "idle" =>
      \A s \in DOMAIN beam.active :
        ~ beam.active[s] =>
          /\ obs.eos_step[s] > 0
          /\ beam.paths[s][obs.eos_step[s] + 1] = EOS
          /\ beam.probs[s] = FracDiv(obs.raw[s], obs.eos_step[s])

\* A slot that terminated at an earlier step and stayed inactive through a
\* later step that changed other slots.
C3_Witness ==
    /\ beam.pc = "loop"
    /\ \E s \in DOMAIN beam.active :
         /\ ~ beam.active[s]
         /\ obs.eos_step[s] > 0
         /\ obs.eos_step[s] < obs.step
         /\ obs.raw[s][1] < 0

\* C10 (as stated): in every step, each active slot ends the step holding the
\* first i tokens of its selected parent path (the path active at the start of
\* the step whose score row holds the selected candidate) followed by the
\* chosen token at position i, with the candidate's score.
C10_ParentPrefix ==
    (beam.pc # "idle" /\ obs.step > 0) =>
      LET act1 == Masked(obs.active1) IN
      \A r \in DOMAIN act1 :
        LET s == act1[r]
            parent == obs.act0[(obs.topi[r] \div VocabSize) + 1]
        IN  /\ \A p \in 1 .. obs.step : beam.paths[s][p] = obs.pre_paths[parent][p]
            /\ beam.paths[s][obs.step + 1] = obs.topi[r] % VocabSize
            /\ beam.probs[s] = IF beam.active[s] THEN obs.topv[r]
                               ELSE FracDiv(obs.topv[r], obs.step)

\* batch_data has read the whole data file (or has raised).
HasRead == manager.pc \in {"bucket", "done", "raised"}

\* The lines with a tab separator missing or too many.
MalformedIds == {k \in DOMAIN manager.data_file : Len(manager.data_file[k]) # 2}

\* The lines that make an accepted example: two non-empty sides, neither
\* longer than max_length once wrapped in <BOS> and <EOS>.
AcceptedIds ==
    {k \in DOMAIN manager.data_file \ MalformedIds :
        /\ ~ manager.data_file[k][1].blank
        /\ ~ manager.data_file[k][2].blank
        /\ Len(manager.data_file[k][1].words) + 2 <= manager.config.max_length
        /\ Len(manager.data_file[k][2].words) + 2 <= manager.config.max_length}

\* The places (bucket, row) at which the example of line k appears.
PlacesOf(k) ==
    {<<b, r>> \in (DOMAIN manager.batched) \X (1 .. Len(manager.data_file)) :
        r \in DOMAIN manager.batched[b].examples /\ manager.batched[b].examples[r].id = k}

\* C4 (as stated): for every corpus (of well-formed lines) and every positive
\* token budget, batch_data returns buckets in which every accepted example
\* appears exactly once.
C4_BucketsPartitionAccepted ==
    (HasRead /\ MalformedIds = {}) =>
      /\ manager.pc # "raised"
      /\ manager.pc = "done" =>
            /\ \A k \in AcceptedIds : Cardinality(PlacesOf(k)) = 1
            /\ \A k \in DOMAIN manager.data_file \ AcceptedIds : PlacesOf(k) = {}

\* C5 (as stated): in every bucket, the maximum source length and the maximum
\* target length do not exceed the source and target length of the example
\* that seeded the bucket.
C5_SeedBoundsBoth ==
    HasRead =>
      \A b \in DOMAIN manager.batched :
        \A r \in DOMAIN manager.batched[b].examples :
          /\ SrcLen(manager.batched[b].examples[r]) <= SrcLen(manager.batched[b].seed)
          /\ TgtLen(manager.batched[b].examples[r]) <= TgtLen(manager.batched[b].seed)

\* C5 (amended): in every bucket, the maximum source length does not exceed
\* the source length of the example that seeded the bucket, and the seed is
\* the first example of the bucket; the maximum target length can exceed the
\* seed's.
C5_SeedBoundsSource ==
    HasRead =>
      \A b \in DOMAIN manager.batched :
        /\ manager.batched[b].seed = manager.batched[b].examples[1]
        /\ \A r \in DOMAIN manager.batched[b].examples :
              SrcLen(manager.batched[b].examples[r]) <= SrcLen(manager.batched[b].seed)

\* A second bucket whose examples differ in source length, one of them with
\* a longer target than the seed.
C5_Witness ==
    /\ manager.pc = "done"
    /\ Len(manager.batched) >= 2
    /\ \E r \in DOMAIN manager.batched[2].examples :
         /\ SrcLen(manager.batched[2].examples[r]) < SrcLen(manager.batched[2].seed)
         /\ TgtLen(manager.batched[2].examples[r]) > TgtLen(manager.batched[2].seed)

\* C8 (as stated): a line with no tab separator is skipped silently: no error
\* is raised, the line contributes no example, and the well-formed lines
\* before and after it are still processed.
C8_MalformedSkipped ==
    (HasRead /\ MalformedIds # {}) =>
      /\ manager.raised # "ValueError at line 245"
      /\ manager.pc # "raised" =>
            {manager.unbatched[r].id : r \in DOMAIN manager.unbatched} = AcceptedIds

\* What C9 says the mask of an example with the given pairs is.
ClaimedMask(lemmas, senses, x) ==
    IF x[1] = 0
    THEN IF \E k \in DOMAIN senses : InSpan(x[3], senses[k]) /\ ~ InSpan(x[2], lemmas[k])
         THEN 1 ELSE 0
    ELSE IF \E k \in DOMAIN senses : InSpan(x[2], senses[k]) /\ ~ InSpan(x[3], senses[k])
         THEN 1 ELSE 0

\* C9: for an example with recorded (lemma span, sense span) pairs, layer 0 of
\* dict_mask is 1 exactly at (row, col) with col in some sense span and row
\* outside that pair's lemma span, and layer 1 is 1 exactly at (row, col) with
\* row in some sense span and col outside that sense span; all else is 0.
C9_DictMask ==
    (batch.pc = "built" /\ batch.mask # <<>>) =>
      \A i \in DOMAIN batch.dict_data :
        \A x \in DOMAIN batch.mask[i] :
          batch.mask[i][x] = ClaimedMask(batch.dict_data[i][1], batch.dict_data[i][2], x)

\* The example of C9 has been read: lemma span [2,4), sense span [10,14);
\* layer 0 is 0 at rows [2,4) x cols [10,14) and 1 at the other rows of those
\* columns, layer 1 is 1 at rows [10,14) except at cols [10,14).
C9_Witness ==
    /\ batch.pc = "built" /\ batch.mask # <<>>
    /\ batch.dict_data[1] = << << <<2, 4>> >>, << <<10, 14>> >> >>
    /\ batch.mask[1][<<0, 2, 10>>] = 0 /\ batch.mask[1][<<0, 3, 13>>] = 0
    /\ batch.mask[1][<<0, 0, 10>>] = 1 /\ batch.mask[1][<<0, 12, 12>>] = 1
    /\ batch.mask[1][<<1, 10, 0>>] = 1 /\ batch.mask[1][<<1, 13, 15>>] = 1
    /\ batch.mask[1][<<1, 11, 12>>] = 0 /\ batch.mask[1][<<1, 2, 10>>] = 0

\* C6 (as stated): after a Vocab is built from a file with header
\* '#<start>:<end>', size(decoding=True) is a multiple of 8 and is <= size().
C6_DecodingSizeMultipleOf8 ==
    (vocab.raised # "idle" /\ vocab.loaded) =>
      /\ vocab.decoding_size % 8 = 0
      /\ vocab.decoding_size <= Size(vocab)

\* C7 (as stated): numberize never raises; every word absent from the
\* vocabulary is mapped to the <UNK> id, also when <UNK> was never added.
C7_NumberizeNeverRaises ==
    (vocab.raised # "idle" /\ vocab.words # <<>>) =>
      /\ vocab.raised = "none"
      /\ Len(vocab.nums) = Len(vocab.words)
      /\ \A k \in 1 .. Len(vocab.words) :
            vocab.words[k] \notin DOMAIN vocab.word_to_num =>
              /\ "<UNK>" \in DOMAIN vocab.word_to_num
              /\ vocab.nums[k] = vocab.word_to_num["<UNK>"]


\* The source tokens of an accepted example before the injection of senses.
OrigWords(x) == SubSeq(x.src_words, 1, x.src_len0)

\* The index one past the last token of the lemma that starts at token a
\* (indices from 0): the first token from a on without the marker '@@'.
LemmaEndOf(words, a) ==
    1 + CHOOSE j \in a .. (Len(words) - 1) :
            /\ ~ EndsWithAtAt(words[j + 1])
            /\ \A k \in a .. (j - 1) : EndsWithAtAt(words[k + 1])

\* The text of the lemma of tokens [a, b): the tokens joined, the marker taken
\* off every token but the last.
RECURSIVE LemmaText(_, _, _)
LemmaText(words, a, b) ==
    IF a + 1 >= b THEN words[a + 1]
    ELSE RStripAt(words[a + 1]) \o LemmaText(words, a + 1, b)

IsEligible(cfg, lemma) ==
    lemma \in DOMAIN Freq /\ lemma \in DOMAIN Dict /\ Freq[lemma] <= cfg.freq_limit

\* The spans of the eligible lemmas of the source, from token a on, left to
\* right.
RECURSIVE EligibleSpans(_, _, _)
EligibleSpans(cfg, words, a) ==
    IF a >= Len(words) THEN <<>>
    ELSE LET b == LemmaEndOf(words, a)
         IN  (IF IsEligible(cfg, LemmaText(words, a, b)) THEN <<<<a, b>>>> ELSE <<>>)
             \o EligibleSpans(cfg, words, b)

\* The sense tokens injected for the lemma of span sp.
SenseOf(cfg, words, sp) == Prefix(Dict[LemmaText(words, sp[1], sp[2])], cfg.max_senses)

\* What C11 says of one accepted example x.
InjectionRecorded(cfg, x) ==
    LET words == OrigWords(x)
        E == EligibleSpans(cfg, words, 0)
        n == Len(x.lemmas)
    IN  /\ Len(x.src_words) <= cfg.max_length
        /\ Len(x.senses) = n
        /\ n <= Len(E)
        /\ \A k \in 1 .. n :
             /\ x.lemmas[k] = E[k]
             /\ 0 <= x.lemmas[k][1] /\ x.lemmas[k][1] < x.lemmas[k][2]
             /\ x.lemmas[k][2] <= x.src_len0
             /\ x.senses[k][1] = (IF k = 1 THEN x.src_len0 ELSE x.senses[k - 1][2])
             /\ x.senses[k][2] = x.senses[k][1] + Len(SenseOf(cfg, words, E[k]))
             /\ SubSeq(x.src_words, x.senses[k][1] + 1, x.senses[k][2])
                  = SenseOf(cfg, words, E[k])
        /\ Len(x.src_words) = (IF n = 0 THEN x.src_len0 ELSE x.senses[n][2])
        /\ n < Len(E) =>
             Len(x.src_words) + Len(SenseOf(cfg, words, E[n + 1])) > cfg.max_length

\* C11: every example accepted by batch_data has, after sense injection, a
\* source of at most max_length tokens; its recorded lemma spans are the
\* spans of the first eligible lemmas of the original source, in order; the
\* sense span of each is the index range where that lemma's first max_senses
\* sense tokens were appended, one span behind the other from the original
\* length on; and the first eligible lemma without a recorded span is one
\* whose senses did not fit, no later lemma having a span.
C11_SenseInjection ==
    HasRead => \A k \in DOMAIN manager.unbatched :
                  InjectionRecorded(manager.config, manager.unbatched[k])

\* An accepted example with a recorded pair and a later eligible lemma whose
\* senses did not fit, and an accepted example whose first eligible lemma did
\* not fit while a later one would have.
C11_Witness ==
    /\ HasRead
    /\ \E k \in DOMAIN manager.unbatched :
         LET x == manager.unbatched[k]
         IN  /\ Len(x.lemmas) >= 1
             /\ Len(x.lemmas) < Len(EligibleSpans(manager.config, OrigWords(x), 0))
    /\ \E k \in DOMAIN manager.unbatched :
         LET x == manager.unbatched[k]
             E == EligibleSpans(manager.config, OrigWords(x), 0)
         IN  /\ x.lemmas = <<>>
             /\ Len(E) >= 2
             /\ x.src_len0 + Len(SenseOf(manager.config, OrigWords(x), E[2]))
                  <= manager.config.max_length


\* C12: dict_mask is a pure derived value of a batch built by batch_data:
\* every read of it on the same Batch returns what the first read returned.
C12_DictMaskPure ==
    (batch.pc = "built" /\ batch.iterator /\ batch.reads >= 1) => batch.mask = batch.first

\* The same for a Batch built with a list of pairs: its reads agree.
ListReadsAgree ==
    (batch.pc = "built" /\ ~ batch.iterator /\ batch.reads >= 1) => batch.mask = batch.first

====
